---- MODULE Spec2Model ----
(***************************************************************************)
(* Grid text-layout engine of the picture-diary editor.                    *)
(*                                                                         *)
(*   calculateRequiredRows  (src/App.tsx)            the counting walk     *)
(*   GridNotebook           (components/GridNotebook) the materializing    *)
(*                                                    walk and padding     *)
(*                                                                         *)
(* A string is a sequence of one-character strings.  The four curly        *)
(* quotation marks are written with their entity names:                    *)
(*   "ldquo" = U+201C   "rdquo" = U+201D   "lsquo" = U+2018                 *)
(*   "rsquo" = U+2019                                                      *)
(* A cell is a record [char, subChar]; subChar = "undefined" when the      *)
(* source pushes {char} only, and "" is the char of a padding cell.        *)
(***************************************************************************)
EXTENDS Integers, Sequences, FiniteSets, TLC

\* ------------------------------------------------------------------ bounds
\* longest free tail appended to the filler of an input text of about one row
MaxTail == 2
\* longest free tail appended to the filler of an input text of about MIN_ROWS rows
MaxLongTail == 1
\* how many filler lengths just below a row boundary are tried
MaxBack == 2
\* largest row count the add-line button is followed to
MaxRows == 6
\* how many calls of the illustration service are followed
MaxCalls == 2
\* how many narrations are followed
MaxSessions == 2
\* how many chunks the narration service delivers at most, all streams together
MaxChunks == 2
\* longest chunk, in ticks of the audio clock
MaxDuration == 2
\* how far the audio clock is followed
MaxClock == 3

\* ------------------------------------------------------- program constants
GRID_COLS == 10
MIN_ROWS == 5

UNDEFINED == "undefined"

\* /\s/ of the regular expressions: the white space the inputs use
WHITESPACE == {" ", "\t", "\n"}

PUNCT_CLASS == {".", ",", "!", "?"}
OPEN_CLASS == {"ldquo", "lsquo"}
CLOSE_CLASS == {"rdquo", "rsquo"}

\* ----------------------------------------------------------- the normalizer
\* first index >= i of s that holds no white space (Len(s)+1 if none): \s+
RECURSIVE SkipWs(_, _)
SkipWs(s, i) ==
  IF i <= Len(s) /\ s[i] \in WHITESPACE THEN SkipWs(s, i + 1) ELSE i

\* .replace(/\n/g, ' ')
ReplaceNewlines(s) == [i \in 1..Len(s) |-> IF s[i] = "\n" THEN " " ELSE s[i]]

\* .replace(/([S])\s+/g, '$1'): scanning from index i
RECURSIVE StripAfterFrom(_, _, _)
StripAfterFrom(S, s, i) ==
  IF i > Len(s) THEN <<>>
  ELSE IF s[i] \in S /\ i < Len(s) /\ s[i + 1] \in WHITESPACE
       THEN <<s[i]>> \o StripAfterFrom(S, s, SkipWs(s, i + 1))
       ELSE <<s[i]>> \o StripAfterFrom(S, s, i + 1)

\* .replace(/\s+([S])/g, '$1'): scanning from index i
RECURSIVE StripBeforeFrom(_, _, _)
StripBeforeFrom(S, s, i) ==
  IF i > Len(s) THEN <<>>
  ELSE IF s[i] \in WHITESPACE
       THEN LET j == SkipWs(s, i) IN
            IF j <= Len(s) /\ s[j] \in S
            THEN <<s[j]>> \o StripBeforeFrom(S, s, j + 1)
            ELSE SubSeq(s, i, j - 1) \o StripBeforeFrom(S, s, j)
       ELSE <<s[i]>> \o StripBeforeFrom(S, s, i + 1)

\* variant: the replacement after the opening quotes left out
TightenNoOpenQuote(s) ==
  StripBeforeFrom(CLOSE_CLASS,
    StripAfterFrom(PUNCT_CLASS, ReplaceNewlines(s), 1), 1)

\* the three tightening replacements after the newline replacement
Tighten(s) ==
  StripBeforeFrom(CLOSE_CLASS,
    StripAfterFrom(OPEN_CLASS,
      StripAfterFrom(PUNCT_CLASS, ReplaceNewlines(s), 1), 1), 1)

\* variant: tightening also before the punctuation marks
CleanTextGridTightBefore(t) ==
  <<" ">> \o StripBeforeFrom(PUNCT_CLASS, Tighten(t), 1)

\* variant: the indentation space left out
CleanTextGridNoIndent(t) == Tighten(t)

\* GridNotebook: const cleanText = ' ' + text.replace(...)...
CleanTextGrid(t) == <<" ">> \o Tighten(t)

\* calculateRequiredRows: const cleanText = ' ' + text.replace(...)...
CleanTextApp(t) == <<" ">> \o Tighten(t)

\* ------------------------------------------------------------------- state
VARIABLES
  content,       \* App: the diary text shown in the editor (GridNotebook's text)
  rows,          \* App: the row count handed to GridNotebook
  pc,            \* "idle" | "count" | "ready" | "grid" | "done" | "mount" | "editor"
  newText,       \* calculateRequiredRows: its argument
  requiredRows,  \* handleContentChange: result of calculateRequiredRows (0: none yet)
  appCleanText,  \* calculateRequiredRows: cleanText
  cellCount,     \* calculateRequiredRows: cellCount
  countIndex,    \* calculateRequiredRows: textIndex
  cleanText,     \* GridNotebook: cleanText
  displayCells,  \* GridNotebook: displayCells
  textIndex,     \* GridNotebook: textIndex
  date,          \* App: the selected date
  storage,       \* localStorage: what is stored under diary_<date>, per date
  error,         \* App: the error message shown in the UI, or NULL
  title,         \* App: the title of the entry shown
  weather,       \* App: the weather of the entry shown
  font,          \* App: the font of the entry shown
  generatedImage, \* App: the generated illustration, or NULL
  attachedImage, \* App: the attached photo, or NULL
  isGenerating,  \* App: an illustration is being generated
  imagePending,  \* generateDiaryImage: a call has not settled yet
  imageCalls,    \* generateDiaryImage: the number of calls made
  isPlayingAudio, \* App: a narration is being played
  sessions,      \* handleSpeak: one record per invocation that got past its guards
  audioClock,    \* AudioContext.currentTime
  savedData,     \* load effect: what getItem returned, until the state it sets is applied
  lineRemoved,   \* history: "yes" when handleRemoveLine ran after the last content edit
                 \* or load, "stale" when a load that failed came after that, else "no"
  visit          \* history: whether the entry was edited since its date was selected,
                 \* and per date the entry and rows shown when an edited entry was left

vars == <<content, rows, pc, newText, requiredRows, appCleanText, cellCount,
          countIndex, cleanText, displayCells, textIndex, date, storage, error,
          title, weather, font, generatedImage, attachedImage,
          isGenerating, imagePending, imageCalls,
          isPlayingAudio, sessions, audioClock, savedData, lineRemoved, visit>>

appVars == <<content, rows>>
countVars == <<newText, requiredRows, appCleanText, cellCount, countIndex>>
gridVars == <<cleanText, displayCells, textIndex>>
entryVars == <<title, weather, font, generatedImage, attachedImage>>
imageVars == <<isGenerating, imagePending, imageCalls>>
speakVars == <<isPlayingAudio, sessions, audioClock>>
editorVars == <<date, storage, error, entryVars, imageVars, speakVars, savedData>>

\* ------------------------------------------------------------------ inputs
\* one representative of every class of character the code tells apart
Alphabet == {"a", " ", "\t", "\n", ".", "ldquo", "rdquo", ")"}

RECURSIVE SeqsUpTo(_, _)
SeqsUpTo(S, n) ==
  IF n = 0 THEN {<<>>}
  ELSE LET shorter == SeqsUpTo(S, n - 1) IN
       shorter \cup {Append(s, c) : s \in {x \in shorter : Len(x) = n - 1}, c \in S}

Filler(n) == [i \in 1..n |-> "a"]

\* filler lengths: none, and those that put the tail on the end of the first row
FirstRowLens == {0} \cup {GRID_COLS - d : d \in 0..MaxBack}

\* filler lengths that put the tail on the end of the MIN_ROWS-th row
LastRowLens == {MIN_ROWS * GRID_COLS - d : d \in 0..MaxBack}

\* the text of the squeeze example
SqueezeExample ==
  <<"1", "2", "3", "4", "5", "6", "7", "8", "9", ".", "r", "e", "s", "t">>

Inputs ==
  {Filler(n) \o t : n \in FirstRowLens, t \in SeqsUpTo(Alphabet, MaxTail)}
    \cup {Filler(n) \o t : n \in LastRowLens, t \in SeqsUpTo(Alphabet, MaxLongTail)}
    \cup {SqueezeExample}

\* ------------------------------------------------- calculateRequiredRows
PUNCTUATION_App == {".", ",", "!", "?"}
\* variant: the closing quotes and the parenthesis left out of the counting walk
FORBIDDEN_START_CHARS_App_PunctOnly == PUNCTUATION_App

FORBIDDEN_START_CHARS_App == PUNCTUATION_App \cup {"rdquo", "rsquo", ")"}

\* s[i] of JavaScript, 0-based: undefined past the end
CharAt(s, i) == IF i < Len(s) THEN s[i + 1] ELSE UNDEFINED

\* char === ' ' && cellCount > 0 && cellCount % GRID_COLS === 0
SkipsSpaceApp(char, n) == char = " " /\ n > 0 /\ n % GRID_COLS = 0

isEndOfLineApp(n) == (n + 1) % GRID_COLS = 0
isNextForbiddenStartApp(nextChar) == nextChar \in FORBIDDEN_START_CHARS_App

\* one iteration of the while loop, from (cellCount, textIndex) = (n, i)
CountStep(s, n, i) ==
  LET char == CharAt(s, i)
      nextChar == CharAt(s, i + 1)
  IN IF SkipsSpaceApp(char, n) THEN [cells |-> n, index |-> i + 1]
     ELSE IF isEndOfLineApp(n) /\ isNextForbiddenStartApp(nextChar)
          THEN [cells |-> n + 1, index |-> i + 2]
          ELSE [cells |-> n + 1, index |-> i + 1]

\* Math.ceil(cellCount / GRID_COLS)
CeilDiv(n, d) == (n + d - 1) \div d

Max(a, b) == IF a >= b THEN a ELSE b

\* variant: the minimum of 5 rows left out
RowsForNoClamp(n) == CeilDiv(n, GRID_COLS)

\* return Math.max(5, Math.ceil(cellCount / GRID_COLS))
RowsFor(n) == Max(MIN_ROWS, CeilDiv(n, GRID_COLS))

\* ------------------------------------------------------------ GridNotebook
PUNCTUATION == {".", ",", "!", "?"}
\* variant: the closing quotes and the parenthesis left out of the grid walk
FORBIDDEN_START_CHARS_PunctOnly == PUNCTUATION

FORBIDDEN_START_CHARS == PUNCTUATION \cup {"rdquo", "rsquo", ")"}

\* variant: the component raises rows to the minimum itself
maxCharsClamped == (IF rows < MIN_ROWS THEN MIN_ROWS ELSE rows) * GRID_COLS

\* const maxChars = rows * GRID_COLS
maxChars == rows * GRID_COLS

Cell(c) == [char |-> c, subChar |-> UNDEFINED]
Squeezed(c, d) == [char |-> c, subChar |-> d]
EmptyCell == Cell("")

\* variant: the row start tested one cell early
SkipsSpaceOffByOne(char, n) == char = " " /\ n > 0 /\ (n + 1) % GRID_COLS = 0

\* char === ' ' && displayCells.length > 0 && displayCells.length % GRID_COLS === 0
SkipsSpace(char, n) == char = " " /\ n > 0 /\ n % GRID_COLS = 0

\* variant: the first column taken for the last
isEndOfLineFirstColumn(currentCellIndex) == currentCellIndex % GRID_COLS = 0

isEndOfLine(currentCellIndex) == (currentCellIndex + 1) % GRID_COLS = 0
isNextForbiddenStart(nextChar) == nextChar \in FORBIDDEN_START_CHARS

\* variant: the cell cap one too high
GridLoopGuardOneMore(s, cells, i, max) == i < Len(s) /\ Len(cells) <= max

\* variant: the cell cap left out of the loop condition
GridLoopGuardNoCap(s, cells, i, max) == i < Len(s)

\* while (textIndex < cleanText.length && displayCells.length < maxChars)
GridLoopGuard(s, cells, i, max) == i < Len(s) /\ Len(cells) < max

\* variant: the squeezed character is stepped over but not stored
GridStepDropsCompanion(s, cells, i) ==
  LET char == CharAt(s, i)
      nextChar == CharAt(s, i + 1)
  IN IF SkipsSpace(char, Len(cells)) THEN [cells |-> cells, index |-> i + 1]
     ELSE IF isEndOfLine(Len(cells)) /\ isNextForbiddenStart(nextChar)
          THEN [cells |-> Append(cells, Cell(char)), index |-> i + 2]
          ELSE [cells |-> Append(cells, Cell(char)), index |-> i + 1]

\* variant: the skipped space is not stepped over
GridStepStuck(s, cells, i) ==
  LET char == CharAt(s, i)
      nextChar == CharAt(s, i + 1)
  IN IF SkipsSpace(char, Len(cells)) THEN [cells |-> cells, index |-> i]
     ELSE IF isEndOfLine(Len(cells)) /\ isNextForbiddenStart(nextChar)
          THEN [cells |-> Append(cells, Squeezed(char, nextChar)), index |-> i + 2]
          ELSE [cells |-> Append(cells, Cell(char)), index |-> i + 1]

\* one iteration of the while loop, from (displayCells, textIndex) = (cells, i)
GridStep(s, cells, i) ==
  LET char == CharAt(s, i)
      nextChar == CharAt(s, i + 1)
  IN IF SkipsSpace(char, Len(cells)) THEN [cells |-> cells, index |-> i + 1]
     ELSE IF isEndOfLine(Len(cells)) /\ isNextForbiddenStart(nextChar)
          THEN [cells |-> Append(cells, Squeezed(char, nextChar)), index |-> i + 2]
          ELSE [cells |-> Append(cells, Cell(char)), index |-> i + 1]

\* while (displayCells.length < maxChars) displayCells.push({ char: '' })
PadCells(cells, max) ==
  cells \o [k \in 1..(IF max > Len(cells) THEN max - Len(cells) ELSE 0) |-> EmptyCell]

\* ------------------------------------------------------- the editor's data
\* useState<string | null>(null)
NULL == "null"

\* the dates the date input can select; Today is the initial one
Dates == {"d1", "d2"}
Today == "d1"

\* localStorage.getItem(`diary_${date}`): nothing stored (or the empty string),
\* a string JSON.parse rejects, or the JSON of a saved entry
Absent ==
  [kind |-> "absent", title |-> "", content |-> <<>>, weather |-> UNDEFINED,
   font |-> UNDEFINED, generatedImage |-> UNDEFINED, attachedImage |-> UNDEFINED]
Corrupt == [Absent EXCEPT !.kind = "corrupt"]
\* no load in progress
NONE == [Absent EXCEPT !.kind = "none"]

\* WeatherType.SUNNY and 'flower', the values of a new entry
SUNNY == "sunny"
FLOWER == "flower"

\* the entry of a date nothing was written for
BlankEntry ==
  [title |-> "", content |-> <<>>, weather |-> SUNNY, font |-> FLOWER,
   generatedImage |-> NULL, attachedImage |-> NULL]

\* the entry on screen
Shown ==
  [title |-> title, content |-> content, weather |-> weather, font |-> font,
   generatedImage |-> generatedImage, attachedImage |-> attachedImage]

\* nothing kept for a date: it was not left with an edited entry
NotLeft == [kind |-> "none", entry |-> BlankEntry, rows |-> 0]

\* no date has been left yet; the history is kept only where it is read
NoVisit == [kept |-> FALSE, edited |-> FALSE, left |-> [d \in Dates |-> NotLeft]]

KeptVisit == [NoVisit EXCEPT !.kept = TRUE]

\* a handler has run: the entry counts as edited once a field of it changed
Edited ==
  IF visit.kept THEN [visit EXCEPT !.edited = @ \/ Shown' # Shown] ELSE visit

\* the date is left: what an edited entry showed is kept for that date
Left ==
  IF visit.kept
  THEN [visit EXCEPT !.edited = FALSE,
                     !.left[date] = IF visit.edited
                                    THEN [kind |-> "left", entry |-> Shown, rows |-> rows]
                                    ELSE NotLeft]
  ELSE visit

\* JSON.stringify(dataToSave), as localStorage holds it
SavedWithoutImages(e) ==
  [kind |-> "entry", title |-> e.title, content |-> e.content, weather |-> e.weather,
   font |-> e.font, generatedImage |-> UNDEFINED, attachedImage |-> UNDEFINED]

Saved(e) ==
  [kind |-> "entry", title |-> e.title, content |-> e.content, weather |-> e.weather,
   font |-> e.font, generatedImage |-> e.generatedImage, attachedImage |-> e.attachedImage]

\* the texts typed into the editor: short ones, and ones about to need a sixth row
EditorTails == {<<>>, <<"a">>, <<" ">>}

EditorTexts == {Filler(n) \o t : n \in {0} \cup LastRowLens, t \in EditorTails}

StoredValues ==
  {Absent, Corrupt} \cup {Saved([BlankEntry EXCEPT !.content = t]) : t \in EditorTexts}

\* calculateRequiredRows(text): normalize, walk to the end of the text, round up
RECURSIVE CountWalk(_, _, _)
CountWalk(s, n, i) ==
  IF i < Len(s)
  THEN LET r == CountStep(s, n, i) IN CountWalk(s, r.cells, r.index)
  ELSE n

calculateRequiredRows(text) == RowsFor(CountWalk(CleanTextApp(text), 0, 0))

\* if (requiredRows !== rows) setRows(requiredRows), seen as the rows that result
RowsAfterChangeGrowOnly(required, current) ==
  IF required > current THEN required ELSE current

RowsAfterChange(required, current) ==
  IF required # current THEN required ELSE current

\* the auto-save effect runs when one of its dependencies (the fields of the
\* entry shown) has changed
autoSaveDepsWithDate(render) == <<render.entry, render.date>>

autoSaveDeps(render) == render.entry

\* what a render closes over
Render == [entry |-> Shown, date |-> date]

AutoSaved(store, before, after) ==
  IF autoSaveDeps(after) # autoSaveDeps(before)
  THEN [store EXCEPT ![after.date] = Saved(after.entry)]
  ELSE store

\* ----------------------------------------------------------------- actions
Init ==
  /\ content = <<>>
  /\ rows = MIN_ROWS
  /\ pc = "idle"
  /\ newText = <<>>
  /\ requiredRows = 0
  /\ appCleanText = <<>>
  /\ cellCount = 0
  /\ countIndex = 0
  /\ cleanText = <<>>
  /\ displayCells = <<>>
  /\ textIndex = 0
  /\ date = Today
  /\ storage = [d \in Dates |-> Absent]
  /\ error = NULL
  /\ title = ""
  /\ weather = SUNNY
  /\ font = FLOWER
  /\ generatedImage = NULL
  /\ attachedImage = NULL
  /\ isGenerating = FALSE
  /\ imagePending = FALSE
  /\ imageCalls = 0
  /\ isPlayingAudio = FALSE
  /\ sessions = <<>>
  /\ audioClock = 0
  /\ savedData = NONE
  /\ lineRemoved = "no"
  /\ visit = NoVisit

\* handleContentChange calls calculateRequiredRows(e.target.value): the
\* normalization and the initialisation of the counting walk
CalcStart ==
  /\ pc = "idle"
  /\ \E t \in Inputs :
       /\ newText' = t
       /\ appCleanText' = CleanTextApp(t)
  /\ cellCount' = 0
  /\ countIndex' = 0
  /\ pc' = "count"
  /\ UNCHANGED <<content, rows, requiredRows, gridVars>>
  /\ UNCHANGED <<editorVars, lineRemoved, visit>>

\* one iteration of the counting walk
CalcIter ==
  /\ pc = "count"
  /\ countIndex < Len(appCleanText)
  /\ LET r == CountStep(appCleanText, cellCount, countIndex) IN
       /\ cellCount' = r.cells
       /\ countIndex' = r.index
  /\ UNCHANGED <<content, rows, pc, newText, requiredRows, appCleanText, gridVars>>
  /\ UNCHANGED <<editorVars, lineRemoved, visit>>

\* the counting walk is over: calculateRequiredRows returns and
\* handleContentChange stores rows and content
CalcReturn ==
  /\ pc = "count"
  /\ ~(countIndex < Len(appCleanText))
  /\ requiredRows' = RowsFor(cellCount)
  /\ rows' = RowsAfterChange(requiredRows', rows)
  /\ content' = newText
  /\ pc' = "ready"
  /\ UNCHANGED <<newText, appCleanText, cellCount, countIndex, gridVars>>
  /\ UNCHANGED <<editorVars, lineRemoved, visit>>

\* setRows(prev => prev + 1); the next render starts from scratch
handleAddLine ==
  /\ pc \in {"ready", "done", "editor"}
  /\ rows < MaxRows
  /\ rows' = rows + 1
  /\ pc' = IF pc = "editor" THEN "editor" ELSE "ready"
  /\ cleanText' = <<>>
  /\ displayCells' = <<>>
  /\ textIndex' = 0
  /\ UNCHANGED <<content, countVars, editorVars, lineRemoved, visit>>

\* setRows(prev => Math.max(5, prev - 1)); the next render starts from scratch
handleRemoveLineNoFloor ==
  /\ pc \in {"ready", "done", "editor"}
  /\ rows' = rows - 1
  /\ pc' = IF pc = "editor" THEN "editor" ELSE "ready"
  /\ cleanText' = <<>>
  /\ displayCells' = <<>>
  /\ textIndex' = 0
  /\ lineRemoved' = IF pc = "editor" THEN "yes" ELSE lineRemoved
  /\ UNCHANGED <<content, countVars, editorVars, visit>>

handleRemoveLine ==
  /\ pc \in {"ready", "done", "editor"}
  /\ rows' = Max(MIN_ROWS, rows - 1)
  /\ pc' = IF pc = "editor" THEN "editor" ELSE "ready"
  /\ cleanText' = <<>>
  /\ displayCells' = <<>>
  /\ textIndex' = 0
  /\ lineRemoved' = IF pc = "editor" THEN "yes" ELSE lineRemoved
  /\ UNCHANGED <<content, countVars, editorVars, visit>>

\* <GridNotebook text={content} rows={rows}>: normalization and initialisation
GridStart ==
  /\ pc = "ready"
  /\ cleanText' = CleanTextGrid(content)
  /\ displayCells' = <<>>
  /\ textIndex' = 0
  /\ pc' = "grid"
  /\ UNCHANGED <<appVars, countVars>>
  /\ UNCHANGED <<editorVars, lineRemoved, visit>>

\* one iteration of the materializing walk
GridIter ==
  /\ pc = "grid"
  /\ GridLoopGuard(cleanText, displayCells, textIndex, maxChars)
  /\ LET r == GridStep(cleanText, displayCells, textIndex) IN
       /\ displayCells' = r.cells
       /\ textIndex' = r.index
  /\ UNCHANGED <<appVars, countVars, pc, cleanText>>
  /\ UNCHANGED <<editorVars, lineRemoved, visit>>

\* the walk is over: fill the remaining cells
GridPad ==
  /\ pc = "grid"
  /\ ~GridLoopGuard(cleanText, displayCells, textIndex, maxChars)
  /\ displayCells' = PadCells(displayCells, maxChars)
  /\ pc' = "done"
  /\ UNCHANGED <<appVars, countVars, cleanText, textIndex>>
  /\ UNCHANGED <<editorVars, lineRemoved, visit>>

Next ==
  \/ CalcStart
  \/ CalcIter
  \/ CalcReturn
  \/ handleAddLine
  \/ handleRemoveLine
  \/ GridStart
  \/ GridIter
  \/ GridPad

Spec == Init /\ [][Next]_vars

\* the loops run to completion once entered (synchronous JavaScript)
LiveSpec ==
  /\ Spec
  /\ WF_vars(CalcIter)
  /\ WF_vars(CalcReturn)
  /\ WF_vars(GridIter)
  /\ WF_vars(GridPad)

\* ------------------------------------------- the two walks, side by side
\* calculateRequiredRows(content) and GridNotebook(content, rows) started on
\* the same text and advanced one loop iteration each at a time
PairInit ==
  /\ content \in Inputs
  /\ rows \in MIN_ROWS..MaxRows
  /\ pc = "pair"
  /\ newText = content
  /\ requiredRows = 0
  /\ appCleanText = <<>>
  /\ cellCount = 0
  /\ countIndex = 0
  /\ cleanText = <<>>
  /\ displayCells = <<>>
  /\ textIndex = 0
  /\ date = Today
  /\ storage = [d \in Dates |-> Absent]
  /\ error = NULL
  /\ title = ""
  /\ weather = SUNNY
  /\ font = FLOWER
  /\ generatedImage = NULL
  /\ attachedImage = NULL
  /\ isGenerating = FALSE
  /\ imagePending = FALSE
  /\ imageCalls = 0
  /\ isPlayingAudio = FALSE
  /\ sessions = <<>>
  /\ audioClock = 0
  /\ savedData = NONE
  /\ lineRemoved = "no"
  /\ visit = NoVisit

PairStart ==
  /\ pc = "pair"
  /\ appCleanText' = CleanTextApp(newText)
  /\ cleanText' = CleanTextGrid(content)
  /\ pc' = "lockstep"
  /\ UNCHANGED <<appVars, newText, requiredRows, cellCount, countIndex,
                 displayCells, textIndex>>
  /\ UNCHANGED <<editorVars, lineRemoved, visit>>

PairIter ==
  /\ pc = "lockstep"
  /\ \/ countIndex < Len(appCleanText)
     \/ GridLoopGuard(cleanText, displayCells, textIndex, maxChars)
  /\ IF countIndex < Len(appCleanText)
     THEN LET r == CountStep(appCleanText, cellCount, countIndex) IN
            /\ cellCount' = r.cells
            /\ countIndex' = r.index
     ELSE UNCHANGED <<cellCount, countIndex>>
  /\ IF GridLoopGuard(cleanText, displayCells, textIndex, maxChars)
     THEN LET r == GridStep(cleanText, displayCells, textIndex) IN
            /\ displayCells' = r.cells
            /\ textIndex' = r.index
     ELSE UNCHANGED <<displayCells, textIndex>>
  /\ UNCHANGED <<appVars, pc, newText, requiredRows, appCleanText, cleanText>>
  /\ UNCHANGED <<editorVars, lineRemoved, visit>>

PairEnd ==
  /\ pc = "lockstep"
  /\ ~(countIndex < Len(appCleanText))
  /\ ~GridLoopGuard(cleanText, displayCells, textIndex, maxChars)
  /\ requiredRows' = RowsFor(cellCount)
  /\ displayCells' = PadCells(displayCells, maxChars)
  /\ pc' = "pairdone"
  /\ UNCHANGED <<appVars, newText, appCleanText, cellCount, countIndex,
                 cleanText, textIndex>>
  /\ UNCHANGED <<editorVars, lineRemoved, visit>>

PairNext ==
  \/ PairStart
  \/ PairIter
  \/ PairEnd

PairSpec == PairInit /\ [][PairNext]_vars

\* ------------------------------------- GridNotebook called with any props
\* <GridNotebook text rows>: the component rendered with a text and a row
\* count of the caller's choice, also one below the minimum
CallInit ==
  /\ content \in Inputs
  /\ rows \in 0..MaxRows
  /\ pc = "ready"
  /\ newText = <<>>
  /\ requiredRows = 0
  /\ appCleanText = <<>>
  /\ cellCount = 0
  /\ countIndex = 0
  /\ cleanText = <<>>
  /\ displayCells = <<>>
  /\ textIndex = 0
  /\ date = Today
  /\ storage = [d \in Dates |-> Absent]
  /\ error = NULL
  /\ title = ""
  /\ weather = SUNNY
  /\ font = FLOWER
  /\ generatedImage = NULL
  /\ attachedImage = NULL
  /\ isGenerating = FALSE
  /\ imagePending = FALSE
  /\ imageCalls = 0
  /\ isPlayingAudio = FALSE
  /\ sessions = <<>>
  /\ audioClock = 0
  /\ savedData = NONE
  /\ lineRemoved = "no"
  /\ visit = NoVisit

CallNext ==
  \/ GridStart
  \/ GridIter
  \/ GridPad

CallSpec == CallInit /\ [][CallNext]_vars

\* ------------------------------------------ the editor, handler by handler
\* the App component before its first effects have run
EditorInit ==
  /\ content = <<>>
  /\ rows = MIN_ROWS
  /\ pc = "mount"
  /\ newText = <<>>
  /\ requiredRows = 0
  /\ appCleanText = <<>>
  /\ cellCount = 0
  /\ countIndex = 0
  /\ cleanText = <<>>
  /\ displayCells = <<>>
  /\ textIndex = 0
  /\ date = Today
  /\ storage \in [Dates -> StoredValues]
  /\ error = NULL
  /\ title = ""
  /\ weather = SUNNY
  /\ font = FLOWER
  /\ generatedImage = NULL
  /\ attachedImage = NULL
  /\ isGenerating = FALSE
  /\ imagePending = FALSE
  /\ imageCalls = 0
  /\ isPlayingAudio = FALSE
  /\ sessions = <<>>
  /\ audioClock = 0
  /\ savedData = NONE
  /\ lineRemoved = "no"
  /\ visit = NoVisit

\* the load effect: the content it leaves, given what is stored for the date
LoadedContent(saved, current) ==
  CASE saved.kind = "entry" -> saved.content
    [] saved.kind = "corrupt" -> current
    [] OTHER -> <<>>

\* parsed.x || fallback
OrElse(v, fallback) == IF v \in {"", NULL, UNDEFINED} THEN fallback ELSE v

\* the load effect: the entry it leaves, given what is stored for the date
Loaded(saved, current) ==
  CASE saved.kind = "entry" ->
         [title |-> OrElse(saved.title, ""),
          content |-> LoadedContent(saved, current.content),
          weather |-> OrElse(saved.weather, SUNNY),
          font |-> OrElse(saved.font, FLOWER),
          generatedImage |-> OrElse(saved.generatedImage, NULL),
          attachedImage |-> OrElse(saved.attachedImage, NULL)]
    [] saved.kind = "corrupt" -> current
    [] OTHER -> BlankEntry

\* the entry fields but content, set together
SetEntry(e) ==
  /\ title' = e.title
  /\ weather' = e.weather
  /\ font' = e.font
  /\ generatedImage' = e.generatedImage
  /\ attachedImage' = e.attachedImage

\* the load effect: the rows it leaves, given what is stored for the date
LoadedRowsNotRecomputed(saved, current) ==
  IF saved.kind = "corrupt" THEN current ELSE MIN_ROWS

LoadedRows(saved, current) ==
  CASE saved.kind = "entry" ->
         IF saved.content # <<>> THEN calculateRequiredRows(saved.content) ELSE MIN_ROWS
    [] saved.kind = "corrupt" -> current
    [] OTHER -> MIN_ROWS

\* first render: the load effect reads the stored entry, the auto-save effect
\* writes the initial state, and writes again once the loaded content is shown
Mount ==
  /\ pc = "mount"
  /\ content' = LoadedContent(storage[date], content)
  /\ rows' = LoadedRows(storage[date], rows)
  /\ SetEntry(Loaded(storage[date], Shown))
  /\ pc' = "editor"
  /\ UNCHANGED <<countVars, gridVars, date, error, imageVars, speakVars, savedData,
                 lineRemoved, visit>>
  /\ storage' = AutoSaved([storage EXCEPT ![date] = Saved(Shown)], Render, Render')

\* onChange of the date input: setDate, the render with the new date and the
\* entry still on screen, and its effects: the load effect reads the stored
\* entry, the auto-save effect runs if a dependency changed
setDate(d) ==
  /\ pc = "editor"
  /\ d # date
  /\ date' = d
  /\ savedData' = storage[d]
  /\ pc' = "loading"
  /\ visit' = Left
  /\ UNCHANGED <<appVars, countVars, gridVars, error, entryVars, imageVars, speakVars,
                 lineRemoved>>
  /\ storage' = AutoSaved(storage, Render, Render')

\* the state set by the load effect is applied and rendered, then the
\* auto-save effect runs if a dependency changed
loadApplied ==
  /\ pc = "loading"
  /\ content' = LoadedContent(savedData, content)
  /\ rows' = LoadedRows(savedData, rows)
  /\ SetEntry(Loaded(savedData, Shown))
  /\ pc' = "editor"
  /\ savedData' = NONE
  /\ lineRemoved' = IF savedData.kind # "corrupt" THEN "no"
                    ELSE IF lineRemoved = "yes" THEN "stale" ELSE lineRemoved
  /\ UNCHANGED <<countVars, gridVars, date, error, imageVars, speakVars, visit>>
  /\ storage' = AutoSaved(storage, Render, Render')

\* onChange of the textarea: handleContentChange, then the auto-save effect
handleContentChange(t) ==
  /\ pc = "editor"
  /\ t # content
  /\ rows' = RowsAfterChange(calculateRequiredRows(t), rows)
  /\ content' = t
  /\ lineRemoved' = "no"
  /\ UNCHANGED <<pc, savedData, countVars, gridVars, date, error, entryVars, imageVars,
                 speakVars>>
  /\ visit' = Edited
  /\ storage' = AutoSaved(storage, Render, Render')

EditorNext ==
  \/ Mount
  \/ \E t \in EditorTexts : handleContentChange(t)
  \/ handleAddLine
  \/ handleRemoveLine
  \/ \E d \in Dates : setDate(d)
  \/ loadApplied

EditorSpec == EditorInit /\ [][EditorNext]_vars

\* --------------------------------------------------- the illustration
\* the messages handed to setError
MSG_NEED_INPUT == "write the diary or attach a photo"
MSG_GENERATION_FAILED == "drawing failed, try again later"

\* !text.trim(): nothing but whitespace
IsBlank(t) == \A i \in 1..Len(t) : t[i] \in WHITESPACE

\* the texts typed around the illustration and the narration: empty, blank,
\* and not blank
ShortTexts == {<<>>, <<" ">>, <<"a">>}

\* what generateDiaryImage resolves to
ReturnedImages == {"img1"}

\* stored entries the illustration scenarios start from
ImageStored ==
  {Absent,
   Saved([BlankEntry EXCEPT !.content = <<" ">>]),
   Saved([BlankEntry EXCEPT !.content = <<"a">>, !.generatedImage = "img0",
                            !.attachedImage = "photo"])}

ImageInit ==
  /\ content = <<>>
  /\ rows = MIN_ROWS
  /\ pc = "mount"
  /\ newText = <<>>
  /\ requiredRows = 0
  /\ appCleanText = <<>>
  /\ cellCount = 0
  /\ countIndex = 0
  /\ cleanText = <<>>
  /\ displayCells = <<>>
  /\ textIndex = 0
  /\ date = Today
  /\ storage \in [Dates -> ImageStored]
  /\ error = NULL
  /\ title = ""
  /\ weather = SUNNY
  /\ font = FLOWER
  /\ generatedImage = NULL
  /\ attachedImage = NULL
  /\ isGenerating = FALSE
  /\ imagePending = FALSE
  /\ imageCalls = 0
  /\ isPlayingAudio = FALSE
  /\ sessions = <<>>
  /\ audioClock = 0
  /\ savedData = NONE
  /\ lineRemoved = "no"
  /\ visit = NoVisit

\* setAttachedImage(null), then the auto-save effect
handleRemoveAttachedImage ==
  /\ pc = "editor"
  /\ attachedImage # NULL
  /\ attachedImage' = NULL
  /\ UNCHANGED <<appVars, pc, savedData, lineRemoved, countVars, gridVars, date, error, title, weather, font,
                 generatedImage, imageVars, speakVars>>
  /\ visit' = Edited
  /\ storage' = AutoSaved(storage, Render, Render')

\* the guard of handleGenerateImage: nothing to draw from
NothingToDrawNoTrim == content = <<>> /\ attachedImage = NULL

NothingToDraw == IsBlank(content) /\ attachedImage = NULL

\* a click on the draw button (enabled unless isGenerating, or content is empty
\* and no photo is attached): handleGenerateImage up to its await, then the
\* auto-save effect
handleGenerateImage ==
  /\ pc = "editor"
  /\ ~isGenerating
  /\ content # <<>> \/ attachedImage # NULL
  /\ imageCalls < MaxCalls
  /\ IF NothingToDraw
     THEN /\ error' = MSG_NEED_INPUT
          /\ UNCHANGED <<generatedImage, imageVars>>
     ELSE /\ error' = NULL
          /\ isGenerating' = TRUE
          /\ generatedImage' = NULL
          /\ imagePending' = TRUE
          /\ imageCalls' = imageCalls + 1
  /\ UNCHANGED <<appVars, pc, savedData, lineRemoved, countVars, gridVars, date, title, weather, font,
                 attachedImage, speakVars>>
  /\ visit' = Edited
  /\ storage' = AutoSaved(storage, Render, Render')

\* generateDiaryImage resolves: the rest of the try block, the finally block,
\* then the auto-save effect
imageResolvedNoFinally(img) ==
  /\ pc = "editor"
  /\ imagePending
  /\ imagePending' = FALSE
  /\ generatedImage' = img
  /\ UNCHANGED <<appVars, pc, savedData, lineRemoved, countVars, gridVars, date, error,
                 title, weather, font, attachedImage, isGenerating, imageCalls, speakVars>>
  /\ visit' = Edited
  /\ storage' = AutoSaved(storage, Render, Render')

imageResolved(img) ==
  /\ pc = "editor"
  /\ imagePending
  /\ imagePending' = FALSE
  /\ generatedImage' = img
  /\ isGenerating' = FALSE
  /\ UNCHANGED <<appVars, pc, savedData, lineRemoved, countVars, gridVars, date, error, title, weather, font,
                 attachedImage, imageCalls, speakVars>>
  /\ visit' = Edited
  /\ storage' = AutoSaved(storage, Render, Render')

\* generateDiaryImage rejects: the catch block and the finally block
imageRejectedRetries ==
  /\ pc = "editor"
  /\ imagePending
  /\ imageCalls' = imageCalls + 1
  /\ error' = MSG_GENERATION_FAILED
  /\ UNCHANGED <<appVars, pc, savedData, lineRemoved, visit, countVars, gridVars, date, storage, entryVars,
                 isGenerating, imagePending, speakVars>>

imageRejected ==
  /\ pc = "editor"
  /\ imagePending
  /\ imagePending' = FALSE
  /\ error' = MSG_GENERATION_FAILED
  /\ isGenerating' = FALSE
  /\ UNCHANGED <<appVars, pc, savedData, lineRemoved, visit, countVars, gridVars, date, storage, entryVars,
                 imageCalls, speakVars>>

ImageNext ==
  \/ Mount
  \/ \E t \in ShortTexts : handleContentChange(t)
  \/ \E d \in Dates : setDate(d)
  \/ loadApplied
  \/ handleRemoveAttachedImage
  \/ handleGenerateImage
  \/ \E img \in ReturnedImages : imageResolved(img)
  \/ imageRejected

ImageSpec == ImageInit /\ [][ImageNext]_vars

\* the promise of generateDiaryImage settles, one way or the other
imageSettled == (\E img \in ReturnedImages : imageResolved(img)) \/ imageRejected

\* effects are flushed; the service settles every call, and the continuation
\* of handleGenerateImage runs as soon as no render is under way
ImageLiveSpec == ImageSpec /\ WF_vars(loadApplied) /\ SF_vars(imageSettled)

\* ----------------------------------------------------------- the narration
MSG_PLAYBACK_FAILED == "playing the sound failed"

SpeakInit ==
  /\ content = <<>>
  /\ rows = MIN_ROWS
  /\ pc = "mount"
  /\ newText = <<>>
  /\ requiredRows = 0
  /\ appCleanText = <<>>
  /\ cellCount = 0
  /\ countIndex = 0
  /\ cleanText = <<>>
  /\ displayCells = <<>>
  /\ textIndex = 0
  /\ date = Today
  /\ storage = [d \in Dates |-> Absent]
  /\ error = NULL
  /\ title = ""
  /\ weather = SUNNY
  /\ font = FLOWER
  /\ generatedImage = NULL
  /\ attachedImage = NULL
  /\ isGenerating = FALSE
  /\ imagePending = FALSE
  /\ imageCalls = 0
  /\ isPlayingAudio = FALSE
  /\ sessions = <<>>
  /\ audioClock = 0
  /\ savedData = NONE
  /\ lineRemoved = "no"
  /\ visit = NoVisit

\* the invocations of handleSpeak that hold a stream or scheduled audio
Active == {k \in 1..Len(sessions) : sessions[k].status \in {"streaming", "scheduled", "late"}}

\* handleSpeak up to its for-await loop: the guards, setIsPlayingAudio(true),
\* setError(null), the stream, the audio context, nextStartTime
handleSpeakNoPlayingGuard ==
  /\ pc = "editor"
  /\ ~IsBlank(content)
  /\ Len(sessions) < MaxSessions
  /\ isPlayingAudio' = TRUE
  /\ error' = NULL
  /\ sessions' = Append(sessions, [status |-> "streaming", context |-> "running",
                                   nextStartTime |-> audioClock, sources |-> <<>>])
  /\ UNCHANGED <<appVars, pc, savedData, lineRemoved, visit, countVars, gridVars, date, storage, entryVars, imageVars,
                 audioClock>>

handleSpeak ==
  /\ pc = "editor"
  /\ ~IsBlank(content)
  /\ ~isPlayingAudio
  /\ Len(sessions) < MaxSessions
  /\ isPlayingAudio' = TRUE
  /\ error' = NULL
  /\ sessions' = Append(sessions, [status |-> "streaming", context |-> "running",
                                   nextStartTime |-> audioClock, sources |-> <<>>])
  /\ UNCHANGED <<appVars, pc, savedData, lineRemoved, visit, countVars, gridVars, date, storage, entryVars, imageVars,
                 audioClock>>

\* const startTime = Math.max(nextStartTime, audioContext.currentTime)
StartTimeIgnoresQueue(next, now) == now

StartTime(next, now) == Max(next, now)

\* the number of chunks the narration service has delivered so far
RECURSIVE ChunksUpTo(_)
ChunksUpTo(k) == IF k = 0 THEN 0 ELSE Len(sessions[k].sources) + ChunksUpTo(k - 1)

\* one iteration of the for-await loop of invocation k: a chunk of the given
\* duration is decoded, started at startTime, and pushed to sources
chunkArrived(k, duration) ==
  /\ sessions[k].status = "streaming"
  /\ ChunksUpTo(Len(sessions)) < MaxChunks
  /\ LET startTime == StartTime(sessions[k].nextStartTime, audioClock) IN
       sessions' = [sessions EXCEPT
                      ![k].sources = Append(@, [start |-> startTime, duration |-> duration,
                                                 at |-> audioClock]),
                      ![k].nextStartTime = startTime + duration]
  /\ UNCHANGED <<appVars, pc, savedData, lineRemoved, visit, countVars, gridVars, date, storage, error, entryVars,
                 imageVars, isPlayingAudio, audioClock>>

\* when the last source pushed stops playing
LastEnd(k) ==
  LET last == sessions[k].sources[Len(sessions[k].sources)] IN last.start + last.duration

\* the stream of invocation k is exhausted: onended is put on the last source
\* ("late" when that source has already stopped), or, with no source at all,
\* setIsPlayingAudio(false)
streamEnded(k) ==
  /\ sessions[k].status = "streaming"
  /\ IF sessions[k].sources = <<>>
     THEN /\ sessions' = [sessions EXCEPT ![k].status = "over"]
          /\ isPlayingAudio' = FALSE
     ELSE /\ sessions' = [sessions EXCEPT
                            ![k].status = IF audioClock >= LastEnd(k) THEN "late"
                                          ELSE "scheduled"]
          /\ UNCHANGED isPlayingAudio
  /\ UNCHANGED <<appVars, pc, savedData, lineRemoved, visit, countVars, gridVars, date, storage, error, entryVars,
                 imageVars, audioClock>>

\* onended of the last source of invocation k: setIsPlayingAudio(false)
sourceEnded(k) ==
  /\ sessions[k].status = "scheduled"
  /\ audioClock >= LastEnd(k)
  /\ sessions' = [sessions EXCEPT ![k].status = "over"]
  /\ isPlayingAudio' = FALSE
  /\ UNCHANGED <<appVars, pc, savedData, lineRemoved, visit, countVars, gridVars, date, storage, error, entryVars,
                 imageVars, audioClock>>

\* the stream of invocation k throws, or a chunk cannot be decoded: the catch block
streamFailedLeavesContext(k) ==
  /\ sessions[k].status = "streaming"
  /\ error' = MSG_PLAYBACK_FAILED
  /\ isPlayingAudio' = FALSE
  /\ sessions' = [sessions EXCEPT ![k].status = "failed"]
  /\ UNCHANGED <<appVars, pc, savedData, lineRemoved, visit, countVars, gridVars, date, storage, entryVars, imageVars,
                 audioClock>>

streamFailed(k) ==
  /\ sessions[k].status = "streaming"
  /\ error' = MSG_PLAYBACK_FAILED
  /\ isPlayingAudio' = FALSE
  /\ sessions' = [sessions EXCEPT ![k].status = "failed", ![k].context = "closed"]
  /\ UNCHANGED <<appVars, pc, savedData, lineRemoved, visit, countVars, gridVars, date, storage, entryVars, imageVars,
                 audioClock>>

\* the audio clock advances
tick ==
  /\ audioClock < MaxClock
  /\ audioClock' = audioClock + 1
  /\ UNCHANGED <<appVars, pc, savedData, lineRemoved, visit, countVars, gridVars, date, storage, error, entryVars,
                 imageVars, isPlayingAudio, sessions>>

\* the durations of the decoded chunks: the shortest and the longest
Durations == {1, MaxDuration}

SpeakNext ==
  \/ Mount
  \/ \E t \in ShortTexts \ {<<>>} : handleContentChange(t)
  \/ handleSpeak
  \/ \E k \in 1..Len(sessions), duration \in Durations : chunkArrived(k, duration)
  \/ \E k \in 1..Len(sessions) : streamEnded(k)
  \/ \E k \in 1..Len(sessions) : sourceEnded(k)
  \/ \E k \in 1..Len(sessions) : streamFailed(k)
  \/ tick

SpeakSpec == SpeakInit /\ [][SpeakNext]_vars

\* ------------------------------------------------- the entries in storage
\* the titles typed
Titles == {"", "T"}

\* the texts typed while the dates are changed: empty and not empty
DiaryTexts == {<<>>, <<"a">>}

\* stored entries the storage scenarios start from: none, an unparsable one,
\* one written before photos could be attached, one with a photo
DiaryStored ==
  {Absent,
   Corrupt,
   [kind |-> "entry", title |-> "T", content |-> <<"a">>, weather |-> "rainy",
    font |-> "hand", generatedImage |-> "img0", attachedImage |-> UNDEFINED],
   Saved([BlankEntry EXCEPT !.content = <<"a">>, !.attachedImage = "photo"])}

DiaryInit ==
  /\ content = <<>>
  /\ rows = MIN_ROWS
  /\ pc = "mount"
  /\ newText = <<>>
  /\ requiredRows = 0
  /\ appCleanText = <<>>
  /\ cellCount = 0
  /\ countIndex = 0
  /\ cleanText = <<>>
  /\ displayCells = <<>>
  /\ textIndex = 0
  /\ date = Today
  /\ storage \in [Dates -> DiaryStored]
  /\ error = NULL
  /\ title = ""
  /\ weather = SUNNY
  /\ font = FLOWER
  /\ generatedImage = NULL
  /\ attachedImage = NULL
  /\ isGenerating = FALSE
  /\ imagePending = FALSE
  /\ imageCalls = 0
  /\ isPlayingAudio = FALSE
  /\ sessions = <<>>
  /\ audioClock = 0
  /\ savedData = NONE
  /\ lineRemoved = "no"
  /\ visit = KeptVisit

\* onChange of the title input: setTitle, then the auto-save effect
setTitle(t) ==
  /\ pc = "editor"
  /\ t # title
  /\ title' = t
  /\ UNCHANGED <<appVars, pc, savedData, lineRemoved, countVars, gridVars, date, error, weather, font,
                 generatedImage, attachedImage, imageVars, speakVars>>
  /\ visit' = Edited
  /\ storage' = AutoSaved(storage, Render, Render')

DiaryNext ==
  \/ Mount
  \/ \E t \in DiaryTexts : handleContentChange(t)
  \/ \E t \in Titles : setTitle(t)
  \/ handleRemoveAttachedImage
  \/ handleAddLine
  \/ \E d \in Dates : setDate(d)
  \/ loadApplied

DiarySpec == DiaryInit /\ [][DiaryNext]_vars

\* -------------------------------------------------------------- properties
TypeOK ==
  /\ pc \in {"idle", "count", "ready", "grid", "done", "pair", "lockstep", "pairdone",
            "mount", "editor", "loading"}
  /\ rows \in MIN_ROWS..MaxRows
  /\ cellCount \in Nat /\ countIndex \in Nat /\ textIndex \in Nat

\* the characters of a cell sequence in reading order: primary, then companion
RECURSIVE Glyphs(_)
Glyphs(cells) ==
  IF cells = <<>> THEN <<>>
  ELSE (IF Head(cells).subChar = UNDEFINED
        THEN <<Head(cells).char>>
        ELSE <<Head(cells).char, Head(cells).subChar>>) \o Glyphs(Tail(cells))

HasSqueezedCell == \E k \in 1..Len(displayCells) : displayCells[k].subChar # UNDEFINED

\* the characters of cleanText the materializing walk has not read
Unread == {i \in 0..(Len(cleanText) - 1) : i >= textIndex}

\* C1 (as stated): with rows = calculateRequiredRows(content) the materializing
\* walk reads the normalized text to its end, the cells after the emitted ones
\* are padding, and there are rows*GRID_COLS - cellCount of them.
C1_WholeTextConsumed ==
  (pc = "done" /\ rows = requiredRows) =>
     /\ textIndex = Len(cleanText)
     /\ Len(displayCells) = rows * GRID_COLS
     /\ \A k \in 1..Len(displayCells) :
          IF k <= cellCount THEN displayCells[k].char # ""
          ELSE displayCells[k] = EmptyCell

\* C1 (amended): with rows = calculateRequiredRows(content) every character the
\* materializing walk leaves unread is a space, the first cellCount cells are
\* the emitted ones, every later cell is padding, and so there are exactly
\* rows*GRID_COLS - cellCount padding cells.
C1_RowsFitText ==
  (pc = "done" /\ rows = requiredRows) =>
     /\ \A i \in Unread : CharAt(cleanText, i) = " "
     /\ Len(displayCells) = rows * GRID_COLS
     /\ \A k \in 1..Len(displayCells) :
          IF k <= cellCount THEN displayCells[k].char # ""
          ELSE displayCells[k] = EmptyCell

C1_Witness ==
  /\ pc = "done"
  /\ rows = requiredRows
  /\ Unread # {}
  /\ cellCount = rows * GRID_COLS

\* C2: side by side on the same text, the counting walk and the materializing
\* walk hold the same (cells emitted, textIndex) pair after every iteration,
\* for as long as the grid has fewer than rows*GRID_COLS cells.
C2_WalksAgree ==
  (pc \in {"lockstep", "pairdone"} /\ Len(displayCells) < maxChars) =>
     /\ cellCount = Len(displayCells)
     /\ countIndex = textIndex

C2_Witness ==
  /\ pc = "lockstep"
  /\ Len(displayCells) < maxChars
  /\ HasSqueezedCell
  /\ textIndex >= Len(displayCells) + 2
  /\ Len(displayCells) >= GRID_COLS

\* C3: for rows >= 5 the number of emitted cells never exceeds rows*GRID_COLS
\* and the finished cell sequence has exactly rows*GRID_COLS cells.
C3_GridSize ==
  rows >= MIN_ROWS =>
     /\ Len(displayCells) <= rows * GRID_COLS
     /\ pc = "done" => Len(displayCells) = rows * GRID_COLS

C3_Witness ==
  /\ pc = "done"
  /\ rows = MIN_ROWS
  /\ textIndex < Len(cleanText)
  /\ CharAt(cleanText, textIndex) # " "
  /\ Len(displayCells) = MIN_ROWS * GRID_COLS

\* C4: calculateRequiredRows returns the least r >= 5 with r*GRID_COLS >=
\* cellCount, that is max(5, ceil(cellCount / GRID_COLS)); never less than 5.
C4_RequiredRows ==
  pc \in {"ready", "grid", "done"} =>
     /\ requiredRows >= 5
     /\ requiredRows * GRID_COLS >= cellCount
     /\ requiredRows > 5 => (requiredRows - 1) * GRID_COLS < cellCount

C4_Witness ==
  /\ pc = "ready"
  /\ requiredRows = 6
  /\ cellCount % GRID_COLS # 0

\* C5: no cell in the first column of a row has a forbidden line-starting
\* character (. , ! ? closing quote, closing parenthesis) as its primary.
C5_NoForbiddenRowStart ==
  \A k \in 1..Len(displayCells) :
     (k - 1) % GRID_COLS = 0 => displayCells[k].char \notin FORBIDDEN_START_CHARS

\* text made of n characters that are no white space, one space, then more
\* text (beginning with a character that is no white space)
C6_Shape(t, n) ==
  /\ Len(t) >= n + 2
  /\ \A i \in 1..n : t[i] \notin WHITESPACE
  /\ t[n + 1] = " "
  /\ t[n + 2] \notin WHITESPACE

\* C6 (as stated): after GRID_COLS non-space characters and one space, the
\* space is in no cell and the character after it is the first cell of row 2:
\* the cells up to there read blank, the GRID_COLS characters, that character.
C6_SpaceAfterTenDropped ==
  (pc = "done" /\ C6_Shape(content, GRID_COLS)) =>
     /\ displayCells[GRID_COLS + 1].char = content[GRID_COLS + 2]
     /\ Glyphs(SubSeq(displayCells, 1, GRID_COLS + 1))
          = <<" ">> \o SubSeq(content, 1, GRID_COLS) \o <<content[GRID_COLS + 2]>>

\* text made of GRID_COLS - 1 characters that are not white space, the last
\* of them no . , ! ? or opening quote, one space, then a character that is
\* neither white space nor a closing quote
C6_ShapeNine(t) ==
  /\ Len(t) >= GRID_COLS + 1
  /\ \A i \in 1..(GRID_COLS - 1) : t[i] \notin WHITESPACE
  /\ t[GRID_COLS - 1] \notin PUNCT_CLASS \cup OPEN_CLASS
  /\ t[GRID_COLS] = " "
  /\ t[GRID_COLS + 1] \notin WHITESPACE \cup CLOSE_CLASS

\* C6 (amended): after GRID_COLS - 1 such characters and one space, the space
\* is in no cell and the character after it is the first cell of row 2: the
\* cells up to there read blank, the GRID_COLS - 1 characters, that character.
C6_SpaceAfterNineDropped ==
  (pc = "done" /\ C6_ShapeNine(content)) =>
     /\ displayCells[GRID_COLS + 1] = Cell(content[GRID_COLS + 1])
     /\ Glyphs(SubSeq(displayCells, 1, GRID_COLS + 1))
          = <<" ">> \o SubSeq(content, 1, GRID_COLS - 1) \o <<content[GRID_COLS + 1]>>

C6_Witness ==
  /\ pc = "done"
  /\ C6_ShapeNine(content)
  /\ content[GRID_COLS + 1] \in FORBIDDEN_START_CHARS

\* the claim's already-normalized text: no line break, no white space after
\* . , ! ? and a single leading space
C7_AlreadyNormalized(t) ==
  /\ \A i \in 1..Len(t) : t[i] # "\n"
  /\ \A i \in 1..(Len(t) - 1) : t[i] \in PUNCT_CLASS => t[i + 1] \notin WHITESPACE
  /\ Len(t) >= 1 /\ t[1] = " "
  /\ Len(t) >= 2 => t[2] # " "

\* C7 (as stated): normalizing already-normalized text returns it unchanged.
C7_NormalizeNoOp ==
  /\ (pc \in {"grid", "done"} /\ C7_AlreadyNormalized(content)) => cleanText = content
  /\ (pc # "idle" /\ C7_AlreadyNormalized(newText)) => appCleanText = newText

\* text the three replacements have nothing to do on
C7_Tight(t) ==
  /\ \A i \in 1..Len(t) : t[i] # "\n"
  /\ \A i \in 1..(Len(t) - 1) :
       /\ t[i] \in PUNCT_CLASS \cup OPEN_CLASS => t[i + 1] \notin WHITESPACE
       /\ t[i + 1] \in CLOSE_CLASS => t[i] \notin WHITESPACE

\* C7 (amended): on text with no line break, no white space after . , ! ? or
\* an opening quote and none before a closing quote, the replacements change
\* nothing and the normalizer returns the text with one more leading space.
C7_NormalizeAddsIndent ==
  /\ (pc \in {"grid", "done"} /\ C7_Tight(content)) => cleanText = <<" ">> \o content
  /\ (pc # "idle" /\ C7_Tight(newText)) => appCleanText = <<" ">> \o newText

C7_Witness ==
  /\ pc = "done"
  /\ C7_Tight(content)
  /\ C7_AlreadyNormalized(content)
  /\ Len(content) >= 2
  /\ \E i \in 1..Len(content) : content[i] \in PUNCT_CLASS

\* C8: for "123456789.rest" cell 9 holds '9' with companion '.', and r, e, s, t
\* are cells 10..13, the first four of row 2.
C8_SqueezeExample ==
  (pc = "done" /\ content = SqueezeExample) =>
     /\ displayCells[10] = Squeezed("9", ".")
     /\ displayCells[11] = Cell("r")
     /\ displayCells[12] = Cell("e")
     /\ displayCells[13] = Cell("s")
     /\ displayCells[14] = Cell("t")

C8_Witness ==
  /\ pc = "done"
  /\ content = SqueezeExample

\* C9: for the empty text calculateRequiredRows returns 5, and the grid of 5
\* rows is 50 cells: the blank indentation cell, then 49 padding cells, none
\* with a companion.
C9_EmptyText ==
  /\ (pc \in {"ready", "grid", "done"} /\ newText = <<>>) => requiredRows = 5
  /\ (pc = "done" /\ content = <<>> /\ rows = 5) =>
        /\ Len(displayCells) = 50
        /\ displayCells[1] = Cell(" ")
        /\ \A k \in 2..50 : displayCells[k] = EmptyCell
        /\ ~HasSqueezedCell

C9_Witness ==
  /\ pc = "done"
  /\ content = <<>>
  /\ rows = 5
  /\ requiredRows = 5

\* an iteration of either loop moves its textIndex forward by 1 or 2
C10_Advance ==
  /\ (pc = "count" /\ pc' = "count") => countIndex' - countIndex \in {1, 2}
  /\ (pc = "grid" /\ pc' = "grid") => textIndex' - textIndex \in {1, 2}

\* C10: both loops terminate for every input, every iteration advancing the
\* text index by 1 or 2, and the result is a grid of rows*GRID_COLS cells.
C10_Total ==
  /\ (pc = "count") ~> (pc = "ready")
  /\ (pc = "grid") ~> (pc = "done" \/ pc = "ready")
  /\ [][C10_Advance]_vars
  /\ [](pc = "done" => Len(displayCells) = rows * GRID_COLS)

C10_Witness ==
  /\ pc = "done"
  /\ Len(content) >= 2
  /\ \A i \in 1..Len(content) : content[i] \in FORBIDDEN_START_CHARS
  /\ Len(displayCells) = rows * GRID_COLS

\* the characters a companion can be
C11_Companions == {".", ",", "!", "?", "rdquo", "rsquo", ")"}

\* every cell has one primary character (none in a padding cell) and at most
\* one companion, and a companion sits in the last column only
C11_CellShape ==
  \A k \in 1..Len(displayCells) :
     /\ DOMAIN displayCells[k] = {"char", "subChar"}
     /\ displayCells[k].subChar # UNDEFINED =>
          /\ (k - 1) % GRID_COLS = GRID_COLS - 1
          /\ displayCells[k].subChar \in C11_Companions

\* an iteration that pushes a cell takes its primary from cleanText[textIndex]
\* and its companion, if any, from cleanText[textIndex + 1]
C11_FromText ==
  (pc = "grid" /\ pc' = "grid" /\ Len(displayCells') = Len(displayCells) + 1) =>
     LET c == displayCells'[Len(displayCells')] IN
       /\ c.char = CharAt(cleanText, textIndex)
       /\ c.subChar # UNDEFINED => c.subChar = CharAt(cleanText, textIndex + 1)
       /\ c.subChar # UNDEFINED <=> textIndex' = textIndex + 2

\* C11: a cell carries a companion only in the last column of its row; the
\* companion is one of . , ! ? closing quote, closing parenthesis, and is the
\* character right after the cell's primary in the normalized text; a cell
\* holds at most one primary and one companion.
C11_Companion == [](C11_CellShape) /\ [][C11_FromText]_vars

C11_Witness ==
  /\ pc = "done"
  /\ displayCells[GRID_COLS] = Squeezed("a", "rdquo")
  /\ displayCells[GRID_COLS + 1].char = "."

\* C12: for rows >= 1 cell 0 holds the prepended space and no companion.
C12_FirstCellBlank ==
  rows >= 1 =>
     /\ Len(displayCells) >= 1 => displayCells[1] = Cell(" ")
     /\ pc = "done" => Len(displayCells) >= 1

C12_Witness ==
  /\ pc = "done"
  /\ rows = 1
  /\ Len(content) >= GRID_COLS
  /\ content[1] = "a"

\* the materializing walk run to its end from (cells, i)
RECURSIVE WalkAll(_, _, _, _)
WalkAll(s, cells, i, max) ==
  IF GridLoopGuard(s, cells, i, max)
  THEN LET r == GridStep(s, cells, i) IN WalkAll(s, r.cells, r.index, max)
  ELSE cells

\* the cells of text t when no row limit cuts the walk short
FullLayout(t) ==
  LET s == CleanTextGrid(t) IN WalkAll(s, <<>>, 0, Len(s) + 1)

\* the first n cells of the layout of t, padded when the layout is shorter
LayoutPrefix(t, n) == SubSeq(PadCells(FullLayout(t), n), 1, n)

\* C13: called with rows below 5 (0 included) the component does not raise
\* rows: it returns rows*GRID_COLS cells, the first ones of the layout.
C13_NoClamp ==
  (pc = "done" /\ rows < MIN_ROWS) =>
     /\ Len(displayCells) = rows * GRID_COLS
     /\ displayCells = LayoutPrefix(content, rows * GRID_COLS)

C13_Witness ==
  /\ pc = "done"
  /\ rows = 1
  /\ Len(displayCells) = GRID_COLS
  /\ textIndex < Len(cleanText)
  /\ displayCells[GRID_COLS].subChar # UNDEFINED

\* no line break, no white space after . , ! ? or an opening quote, and no
\* white space before a closing quote from position from on (1-based)
C14_TightFrom(s, from) ==
  /\ \A i \in 1..Len(s) : s[i] # "\n"
  /\ \A i \in 1..(Len(s) - 1) :
       /\ s[i] \in {".", ",", "!", "?", "ldquo", "lsquo"} => s[i + 1] \notin WHITESPACE
       /\ (i >= from /\ s[i + 1] \in {"rdquo", "rsquo"}) => s[i] \notin WHITESPACE

C14_StartsWithSpace(s) == Len(s) >= 1 /\ s[1] = " "

\* C14 (as stated): the normalized text has no line break, no white space
\* after . , ! ? or an opening quote, none before a closing quote, and starts
\* with the prepended space.
C14_NormalizedTight ==
  /\ pc \in {"grid", "done"} =>
       C14_TightFrom(cleanText, 1) /\ C14_StartsWithSpace(cleanText)
  /\ pc # "idle" =>
       C14_TightFrom(appCleanText, 1) /\ C14_StartsWithSpace(appCleanText)

\* C14 (amended): as stated, except that the prepended space itself may stand
\* before a closing quote (when the tightened text begins with one).
C14_NormalizedTightButIndent ==
  /\ pc \in {"grid", "done"} =>
       C14_TightFrom(cleanText, 2) /\ C14_StartsWithSpace(cleanText)
  /\ pc # "idle" =>
       C14_TightFrom(appCleanText, 2) /\ C14_StartsWithSpace(appCleanText)

C14_Witness ==
  /\ pc = "done"
  /\ content = <<"\t", "rdquo">>
  /\ cleanText = <<" ", "rdquo">>

\* g[j..] is s[i..] with nothing but spaces left out
RECURSIVE DropsOnlySpaces(_, _, _, _)
DropsOnlySpaces(g, j, s, i) ==
  IF i > Len(s) THEN j > Len(g)
  ELSE IF j <= Len(g) /\ g[j] = s[i] THEN DropsOnlySpaces(g, j + 1, s, i + 1)
  ELSE s[i] = " " /\ DropsOnlySpaces(g, j, s, i + 1)

\* the grid is large enough for the text: read in order, the emitted cells
\* give the normalized text with nothing but spaces left out
C15_ReadsBack ==
  (pc = "done" /\ rows * GRID_COLS >= cellCount) =>
     DropsOnlySpaces(Glyphs(SubSeq(displayCells, 1, cellCount)), 1, cleanText, 1)

\* an iteration either pushes a cell holding the characters it reads, or reads
\* one space at the start of a row after the first and pushes nothing
C15_Iteration ==
  (pc = "grid" /\ pc' = "grid") =>
     IF Len(displayCells') = Len(displayCells)
     THEN /\ textIndex' = textIndex + 1
          /\ CharAt(cleanText, textIndex) = " "
          /\ Len(displayCells) > 0
          /\ Len(displayCells) % GRID_COLS = 0
     ELSE Glyphs(displayCells')
            = Glyphs(displayCells) \o SubSeq(cleanText, textIndex + 1, textIndex')

\* C15: when the grid is large enough, reading the cells in order (primary,
\* then companion) gives the normalized text with only the skipped row-start
\* spaces removed, every other character once and in order.
C15_TextPreserved == [](C15_ReadsBack) /\ [][C15_Iteration]_vars

C15_Witness ==
  /\ pc = "done"
  /\ rows * GRID_COLS >= cellCount
  /\ HasSqueezedCell
  /\ Len(Glyphs(SubSeq(displayCells, 1, cellCount))) < Len(cleanText)
  /\ cellCount >= GRID_COLS

\* C16: no cell at an index k > 0 with k % GRID_COLS = 0 holds a space.
C16_NoSpaceAtRowStart ==
  \A k \in 1..Len(displayCells) :
     (k > 1 /\ (k - 1) % GRID_COLS = 0) => displayCells[k].char # " "

C16_Witness ==
  /\ pc = "done"
  /\ Len(content) > GRID_COLS
  /\ content[GRID_COLS] = " "
  /\ content[GRID_COLS + 1] = "\n"
  /\ displayCells[GRID_COLS + 1] = EmptyCell

Min(a, b) == IF a <= b THEN a ELSE b

\* C17: the padding cells are a suffix of the grid and the cells before them
\* number min(cellCount, rows*GRID_COLS).
C17_PaddingSuffix ==
  pc = "done" =>
     \A k \in 1..Len(displayCells) :
        displayCells[k] = EmptyCell <=> k > Min(cellCount, rows * GRID_COLS)

C17_Witness ==
  /\ pc = "done"
  /\ cellCount > rows * GRID_COLS
  /\ displayCells[Len(displayCells)] # EmptyCell

\* C18: in every state of the editor (after mounting with an entry stored, with
\* none, or with an unparsable one, and after any content edits, added lines,
\* removed lines and date changes) rows is at least 5.
C18_RowsAtLeastFive == rows >= MIN_ROWS

\* lines were removed down to the minimum under a text that needs a sixth row
C18_Witness ==
  /\ pc = "editor"
  /\ rows = MIN_ROWS
  /\ calculateRequiredRows(content) > MIN_ROWS
  /\ \E d \in Dates : storage[d] = Corrupt

\* the least number of rows, not below the minimum, whose grid takes every
\* cell the materializing walk emits for text t
RowsNeeded(t) ==
  LET n == Len(FullLayout(t)) IN
  CHOOSE r \in MIN_ROWS..(MIN_ROWS + n) :
    /\ n <= r * GRID_COLS
    /\ \A q \in MIN_ROWS..(r - 1) : n > q * GRID_COLS

\* RowsNeeded, for every text of the editor
C19_RowsNeeded == [t \in EditorTexts |-> RowsNeeded(t)]

\* C19: a step of handleContentChange(newText) leaves content = newText and
\* rows = the required row count of newText, whatever rows was before the step.
C19_EditStep ==
  (pc = "editor" /\ date' = date /\ content' # content) =>
     /\ content' \in EditorTexts
     /\ handleContentChange(content')
     /\ rows' = C19_RowsNeeded[content']

C19_EditOverwritesRows == [][C19_EditStep]_vars

\* the edited text is shown and saved in a grid of six rows, the number it needs
C19_Witness ==
  /\ pc = "editor"
  /\ content # <<>>
  /\ storage[date] = Saved(Shown)
  /\ rows = C19_RowsNeeded[content]
  /\ rows > MIN_ROWS

\* C20 (as stated): whenever the load effect runs (on the first render and
\* after a date change) and the entry stored for the selected date cannot be
\* parsed, the error state shown in the UI is set.
C20_LoadStep ==
  /\ (pc = "mount" /\ storage[date] = Corrupt) => error' # NULL
  /\ (pc = "loading" /\ savedData = Corrupt) => error' # NULL

C20_ParseFailureReported == [][C20_LoadStep]_vars

\* C21: when the illustration service call fails, handleGenerateImage sets the
\* generic failure message, makes no further service call, leaves content and
\* rows as they are, and is over (isGenerating is false again), so that the
\* user can start it again.
C21_FailureStep ==
  imageRejected =>
     /\ error' = MSG_GENERATION_FAILED
     /\ imageCalls' = imageCalls
     /\ ~imagePending'
     /\ content' = content /\ rows' = rows
     /\ ~isGenerating'

C21_FailureReported == [][C21_FailureStep]_vars

\* the one call made has failed and the failure is on screen
C21_Witness ==
  /\ imageCalls = 1
  /\ ~imagePending
  /\ ~isGenerating
  /\ error = MSG_GENERATION_FAILED
  /\ content = <<"a">>

\* C22: when the narration stream of an invocation fails, before its first chunk
\* or after chunks were scheduled, handleSpeak sets the playback-failure
\* message, sets isPlayingAudio to false, closes the audio context of that
\* invocation and starts no other stream.
C22_FailureStep ==
  \A k \in 1..Len(sessions) :
    streamFailed(k) =>
      /\ error' = MSG_PLAYBACK_FAILED
      /\ ~isPlayingAudio'
      /\ sessions'[k].context = "closed"
      /\ Len(sessions') = Len(sessions)
      /\ Active' = Active \ {k}

C22_StreamFailure == [][C22_FailureStep]_vars

\* a stream has failed after a chunk was scheduled, another before its first chunk
C22_Witness ==
  /\ Len(sessions) = 2
  /\ sessions[1].status = "failed" /\ sessions[1].sources # <<>>
  /\ sessions[2].status = "failed" /\ sessions[2].sources = <<>>
  /\ sessions[2].context = "closed"
  /\ error = MSG_PLAYBACK_FAILED
  /\ ~isPlayingAudio

\* C23: the chunks of a narration are scheduled in arrival order and do not
\* overlap: every chunk starts no earlier than the audio clock at the moment
\* it is scheduled, and no earlier than the start of the chunk before it plus
\* that chunk's duration.
C23_NoOverlap ==
  \A k \in 1..Len(sessions) :
    LET sources == sessions[k].sources IN
    \A i \in 1..Len(sources) :
      /\ sources[i].start >= sources[i].at
      /\ i > 1 => /\ sources[i].start >= sources[i - 1].start + sources[i - 1].duration
                  /\ sources[i].at >= sources[i - 1].at

\* the second chunk arrived while the first one was playing and waits for its
\* end; in another run it arrived after the end and starts at once
C23_Witness ==
  \E k \in 1..Len(sessions) :
    LET sources == sessions[k].sources IN
    /\ Len(sources) = 2
    /\ sources[2].at > sources[1].at
    /\ sources[2].at < sources[1].start + sources[1].duration
    /\ sources[2].start > sources[2].at

\* C24: changing the date does not save the entry on screen under the new
\* date: the auto-save effect does not run on the date change alone, and,
\* until the state loaded (or reset) for the new date is applied, the only
\* write to diary_<newDate> is the one of that loaded state.
C24_DateChangeStep == date' # date => storage' = storage

C24_LoadStep ==
  pc = "loading" =>
    \/ storage' = storage
    \/ /\ savedData.kind # "corrupt"
       /\ Shown' = Loaded(savedData, Shown)
       /\ Shown' # Shown
       /\ storage' = [storage EXCEPT ![date] = Saved(Shown')]

C24_NoSaveUnderNewDate == [][C24_DateChangeStep /\ C24_LoadStep]_vars

\* the new date is selected, the old entry is still on screen, and the entry
\* stored for the new date is another one, untouched
C24_Witness ==
  /\ pc = "loading"
  /\ title = "T" /\ content = <<"a">>
  /\ savedData.kind = "entry"
  /\ storage[date] = savedData
  /\ savedData.title # title

\* the grid GridNotebook returns for text t and r rows
GridOf(t, r) ==
  LET s == CleanTextGrid(t) IN
  PadCells(WalkAll(s, <<>>, 0, r * GRID_COLS), r * GRID_COLS)

\* C25: for every text and r1 <= r2, the first r1*GRID_COLS cells of the grid
\* built with r2 rows are the grid built with r1 rows, primary and companion.
C25_RowLimitCutsSuffix ==
  pc = "done" =>
    \A r1 \in 0..rows : SubSeq(displayCells, 1, r1 * GRID_COLS) = GridOf(content, r1)

\* a grid of several rows whose first row ends with a squeezed cell and is
\* followed by more text
C25_Witness ==
  /\ pc = "done"
  /\ rows = MaxRows
  /\ displayCells[GRID_COLS].subChar # UNDEFINED
  /\ displayCells[GRID_COLS + 1].char # ""

\* calculateRequiredRows, for every text of the editor
C26_Required == [t \in EditorTexts |-> calculateRequiredRows(t)]

\* the main grid has room for the whole text
C26_Enough == rows >= C26_Required[content]

\* C26 (as stated): in every editor state in which handleRemoveLine has not
\* run since the last content edit or date load, rows is at least
\* calculateRequiredRows(content).
C26_EnoughUnlessRemoved ==
  (pc = "editor" /\ lineRemoved # "yes") => C26_Enough

\* C26 (amended): the same, with a load whose stored entry cannot be parsed
\* not counting as a load; and a step that takes rows below the required
\* count is a step of handleRemoveLine.
C26_EnoughUnlessRemovedState ==
  (pc = "editor" /\ lineRemoved = "no") => C26_Enough

C26_OnlyRemoveLineStep ==
  (pc = "editor" /\ C26_Enough /\ ~C26_Enough') =>
     /\ handleRemoveLine
     /\ content' = content
     /\ rows' = Max(MIN_ROWS, rows - 1)

C26_EnoughUnlessRemovedSinceGoodLoad ==
  [](C26_EnoughUnlessRemovedState) /\ [][C26_OnlyRemoveLineStep]_vars

\* a line was removed under a text of six rows, then a date whose entry
\* cannot be parsed was selected: the text is still there, in five rows
C26_Witness ==
  /\ pc = "editor"
  /\ lineRemoved = "stale"
  /\ storage[date] = Corrupt
  /\ ~C26_Enough

\* C27: handleSpeak starts a narration only when isPlayingAudio is false and
\* content is not blank, so that at most one narration (a stream being read
\* or audio scheduled and not yet over) exists at any time, and isPlayingAudio
\* is true as long as one exists.
C27_AtMostOne ==
  /\ Cardinality(Active) <= 1
  /\ Active # {} => isPlayingAudio

C27_StartStep ==
  Len(sessions') > Len(sessions) => (~isPlayingAudio /\ ~IsBlank(content))

C27_OneNarration == [](C27_AtMostOne) /\ [][C27_StartStep]_vars

\* a second narration is being streamed after the first one was played to its end
C27_Witness ==
  /\ Len(sessions) = 2
  /\ sessions[1].status = "over" /\ sessions[1].sources # <<>>
  /\ sessions[2].status = "streaming"
  /\ isPlayingAudio

\* every invocation that sets isGenerating sets it back once the call settles
C28_Ends == isGenerating ~> ~isGenerating

\* on success generatedImage holds the returned image
C28_SuccessStep ==
  \A img \in ReturnedImages : imageResolved(img) => generatedImage' = img

\* C28 (as stated): every handleGenerateImage invocation that sets isGenerating
\* to true sets it back to false when the service resolves or rejects; on
\* success generatedImage holds the returned image, on failure it is null.
C28_FailureStepNull == imageRejected => generatedImage' = NULL

C28_GeneratingEnds ==
  C28_Ends /\ [][C28_SuccessStep]_vars /\ [][C28_FailureStepNull]_vars

\* C28 (amended): the same, but on failure generatedImage is left as it is:
\* the call cleared it, and while the call is pending only the load of
\* another date's entry can set it.
C28_CallStep == (~imagePending /\ imagePending') => generatedImage' = NULL

C28_PendingStep ==
  (imagePending /\ imagePending' /\ generatedImage' # generatedImage) => pc = "loading"

C28_FailureStep == imageRejected => generatedImage' = generatedImage

C28_GeneratingEndsImageKept ==
  /\ C28_Ends
  /\ [][C28_SuccessStep /\ C28_CallStep /\ C28_PendingStep /\ C28_FailureStep]_vars

\* a call is pending and the image of another date, loaded meanwhile, is on screen
C28_Witness ==
  /\ imagePending
  /\ isGenerating
  /\ generatedImage = "img0"

\* C29: handleGenerateImage with blank content and no attached image sets the
\* input-needed message and returns: the illustration service is not called,
\* isGenerating and generatedImage are left as they were
C29_BlankStep ==
  (handleGenerateImage /\ IsBlank(content) /\ attachedImage = NULL) =>
    /\ error' = MSG_NEED_INPUT
    /\ imageCalls' = imageCalls
    /\ imagePending' = imagePending
    /\ isGenerating' = isGenerating
    /\ generatedImage' = generatedImage

C29_BlankInputRejected == [][C29_BlankStep]_vars

\* whitespace-only content was refused and no call has been made, while an
\* image of an earlier state of the entry is still shown
C29_Witness ==
  /\ error = MSG_NEED_INPUT
  /\ IsBlank(content) /\ content # <<>>
  /\ attachedImage = NULL
  /\ generatedImage # NULL
  /\ imageCalls = 0
  /\ ~isGenerating

\* C30: an entry edited under a date and left is shown again as it was left
\* when that date is selected again: title, content, weather, font, generated
\* image and attached image come back from storage, and rows is recomputed
\* from the content (MIN_ROWS when it is empty), whatever rows was on leaving
C30_ReturnStep ==
  (pc = "loading" /\ pc' = "editor" /\ visit.left[date].kind = "left") =>
    /\ Shown' = visit.left[date].entry
    /\ rows' = calculateRequiredRows(content')
    /\ content' = <<>> => rows' = MIN_ROWS

C30_RoundTrip == [][C30_ReturnStep]_vars

\* back on a date that was left with a line added by hand: the entry with its
\* non-default fields is shown again, the added line is not
C30_Witness ==
  /\ pc = "editor"
  /\ ~visit.edited
  /\ visit.left[date].kind = "left"
  /\ Shown = visit.left[date].entry
  /\ content # <<>> /\ title # "" /\ weather # SUNNY /\ generatedImage # NULL
  /\ visit.left[date].rows > rows
  /\ \E d \in Dates \ {date} : visit.left[d].kind = "left"

============================================================================
